---------------------------- MODULE Spec2Model ----------------------------
(*************************************************************************)
(* Model of the formatter exported by src/index.js                       *)
(* (eslint-friendly-formatter): flatten the per-file results, sort the   *)
(* entries, build the rows of the main table while counting, then        *)
(* compose the report.                                                   *)
(*                                                                       *)
(* A JavaScript object is a function from its property names to their    *)
(* values; a property that is absent (undefined) is not in its DOMAIN.   *)
(*************************************************************************)
EXTENDS Integers, Sequences, FiniteSets, TLC

VARIABLES
    results,              \* the argument of module.exports
    absolutePathsToFile,  \* parseBoolEnvVar('EFF_ABSOLUTE_PATHS')
    groupByIssue,         \* parsedArgs['eff-by-issue']
    filterRule,           \* parsedArgs['eff-filter']; "" when not given
    engine,               \* the Array.prototype.sort of the runtime
    pc,                   \* position in module.exports
    ri,                   \* index of results.forEach
    entries,              \* var entries
    mi,                   \* index of entries.reduce
    seq,                  \* the rows pushed by the reduce callback
    errors, warnings,     \* the two counters
    summaryColor,
    errorsHash, warningsHash,
    total,
    output,               \* var output, a sequence of pieces
    ret                   \* the returned string, a sequence of pieces

vars == <<results, absolutePathsToFile, groupByIssue, filterRule, engine, pc,
          ri, entries, mi, seq, errors, warnings, summaryColor, errorsHash,
          warningsHash, total, output, ret>>

--------------------------------------------------------------------------
(* Bounds of the inputs *)

MaxFiles == 2
MaxDiags == 2

(* message.source.length < 1000 *)
MaxSourceLength == 1000

--------------------------------------------------------------------------
(* JavaScript values *)

Has(obj, prop) == prop \in DOMAIN obj

NoProps == [p \in {} |-> 0]

\* The sets of objects having property `prop` with a value of Vals, or not
\* having it.
Optional(prop, Vals) == {NoProps} \cup {prop :> v : v \in Vals}

IndexOf(s, x) == CHOOSE k \in 1..Len(s) : s[k] = x

\* The rule identifiers of the model, in the order of their UTF-16 code units.
RuleIds == <<"no-undef", "semi">>

\* The file paths of the model in collation order: '/' collates before
\* every letter.
FilePaths == <<"/cwd/a.js", "/cwd/b.js", "/cwd/c.js", "a.js", "b.js", "c.js">>

RelativePaths == {"a.js", "b.js", "c.js"}

\* path.resolve(p) with process.cwd() = '/cwd'
resolve(p) == CASE p = "a.js" -> "/cwd/a.js"
                [] p = "b.js" -> "/cwd/b.js"
                [] p = "c.js" -> "/cwd/c.js"
                [] OTHER -> p

\* a.localeCompare(b) on file paths
localeCompare(a, b) ==
    LET x == IndexOf(FilePaths, a)
        y == IndexOf(FilePaths, b)
    IN  IF x < y THEN -1 ELSE IF x > y THEN 1 ELSE 0

\* a[prop] > b[prop] for a numeric property: false when either is undefined
NumGreater(a, b, prop) == Has(a, prop) /\ Has(b, prop) /\ a[prop] > b[prop]

\* a.ruleId > b.ruleId on strings: false when either is undefined
RuleGreater(a, b) ==
    /\ Has(a, "ruleId") /\ Has(b, "ruleId")
    /\ IndexOf(RuleIds, a.ruleId) > IndexOf(RuleIds, b.ruleId)


--------------------------------------------------------------------------
(* Array.prototype.sort.  The order of the result is that of the          *)
(* runtime's algorithm; the two algorithms of V8 for arrays of this size  *)
(* (insertion sort up to 10 elements before V8 7.0, TimSort's binary      *)
(* insertion sort of a single run below 64 elements since) agree whenever *)
(* the comparator is a consistent ordering.  Both work on the indices     *)
(* 1..n of the array, c[<<x, y>>] being comparefn(array[x], array[y]).    *)

Engines == {"InsertionSort", "TimSort"}

RECURSIVE InsertionPoint(_, _, _, _)
\* for (j = i - 1; j >= from; j--) { if (comparefn(a[j], element) > 0) shift; else break; }
InsertionPoint(a, element, j, c) ==
    IF j >= 1 /\ c[<<a[j], element>>] > 0
    THEN InsertionPoint(a, element, j - 1, c)
    ELSE j

\* a with the element at position i moved to position at, those between shifted up
MoveTo(a, i, at) ==
    [k \in 1..Len(a) |->
        IF k < at \/ k > i THEN a[k] ELSE IF k = at THEN a[i] ELSE a[k - 1]]

RECURSIVE InsertionSort(_, _, _)
InsertionSort(a, i, c) ==
    IF i > Len(a) THEN a
    ELSE InsertionSort(MoveTo(a, i, InsertionPoint(a, a[i], i - 1, c) + 1), i + 1, c)

RECURSIVE RunLength(_, _, _, _)
\* CountAndMakeRun: the length of the run that starts the array
RunLength(a, idx, isDescending, c) ==
    IF idx > Len(a) THEN idx - 1
    ELSE LET order == c[<<a[idx], a[idx - 1]>>]
         IN  IF (isDescending /\ order >= 0) \/ (~isDescending /\ order < 0)
             THEN idx - 1
             ELSE RunLength(a, idx + 1, isDescending, c)

ReverseRange(a, n) == [k \in 1..Len(a) |-> IF k <= n THEN a[n + 1 - k] ELSE a[k]]

RECURSIVE BinarySearch(_, _, _, _, _)
BinarySearch(a, pivot, left, right, c) ==
    IF left >= right THEN left
    ELSE LET mid == left + ((right - left) \div 2)
         IN  IF c[<<pivot, a[mid]>>] < 0
             THEN BinarySearch(a, pivot, left, mid, c)
             ELSE BinarySearch(a, pivot, mid + 1, right, c)

RECURSIVE BinaryInsertionSort(_, _, _)
BinaryInsertionSort(a, start, c) ==
    IF start > Len(a) THEN a
    ELSE BinaryInsertionSort(MoveTo(a, start, BinarySearch(a, a[start], 1, start, c)),
                             start + 1, c)

TimSort(a, c) ==
    IF Len(a) < 2 THEN a
    ELSE LET isDescending == c[<<a[2], a[1]>>] < 0
             run == RunLength(a, 3, isDescending, c)
             made == IF isDescending THEN ReverseRange(a, run) ELSE a
         IN  BinaryInsertionSort(made, run + 1, c)

\* array.sort(comparefn) on the runtime eng
sort(array, c, eng) ==
    LET identity == [k \in 1..Len(array) |-> k]
        order == IF eng = "InsertionSort" THEN InsertionSort(identity, 2, c)
                 ELSE TimSort(identity, c)
    IN  [k \in 1..Len(array) |-> array[order[k]]]

--------------------------------------------------------------------------
(* Flattening *)

\* extend(target, object): every property of object is copied onto target
extend(target, object) == object @@ target

\* the body of results.forEach: the entries one result adds
FlattenResult(result, absolute) ==
    LET messages == IF Has(result, "messages") THEN result.messages ELSE <<>>
    IN  [k \in 1..Len(messages) |->
            extend("filePath" :> (IF absolute THEN resolve(result.filePath)
                                  ELSE result.filePath),
                   messages[k])]

\* results.forEach(...): the entries of all the results rs
RECURSIVE Flatten(_, _)
Flatten(rs, absolute) ==
    IF rs = <<>> THEN <<>>
    ELSE FlattenResult(Head(rs), absolute) \o Flatten(Tail(rs), absolute)

--------------------------------------------------------------------------
(* Sorting the entries *)

\* the function given to entries.sort
Comparator(a, b, byIssue) ==
    IF a.severity > b.severity THEN 1
    ELSE IF a.severity < b.severity THEN -1
    ELSE IF byIssue /\ RuleGreater(a, b) THEN 1
    ELSE IF byIssue /\ RuleGreater(b, a) THEN -1
    ELSE IF localeCompare(a.filePath, b.filePath) # 0
         THEN localeCompare(a.filePath, b.filePath)
    ELSE IF NumGreater(a, b, "line") THEN 1
    ELSE IF NumGreater(b, a, "line") THEN -1
    ELSE IF NumGreater(a, b, "column") THEN 1
    ELSE IF NumGreater(b, a, "column") THEN -1
    ELSE 0

SortEntries(es, byIssue, eng) ==
    sort(es,
         [p \in (1..Len(es)) \X (1..Len(es)) |->
             Comparator(es[p[1]], es[p[2]], byIssue)],
         eng)

--------------------------------------------------------------------------
(* The callback of entries.reduce *)

TAB == "\t"

\* FilteredOut comparing only the rule identifiers that are present, so that a
\* diagnostic without ruleId passes every filter
FilteredOutIfPresent(message, rule) ==
    rule # "" /\ Has(message, "ruleId") /\ message.ruleId # rule

\* if (filterRule) { if (message.ruleId !== filterRule) return seq; }
FilteredOut(message, rule) ==
    rule # "" /\ (~Has(message, "ruleId") \/ message.ruleId # rule)

\* message.fatal || message.severity === 2
IsError(message) ==
    (Has(message, "fatal") /\ message.fatal) \/ message.severity = 2

\* the property key of hash[message.ruleId]: undefined converts to 'undefined'
PropertyKey(message) ==
    IF Has(message, "ruleId") THEN message.ruleId ELSE "undefined"

\* hash[key] = (hash[key] || 0) + 1; a hash is the sequence of its
\* properties in the order of their creation, which is that of Object.keys
Increment(hash, key) ==
    IF \E k \in 1..Len(hash) : hash[k].key = key
    THEN [k \in 1..Len(hash) |->
             IF hash[k].key = key
             THEN [key |-> key, count |-> hash[k].count + 1]
             ELSE hash[k]]
    ELSE Append(hash, [key |-> key, count |-> 1])

\* message.line || 0, message.column || 0
OrZero(message, prop) == IF Has(message, prop) THEN message[prop] ELSE 0

\* message.source !== undefined && message.source.length < 1000
HasSource(message) ==
    Has(message, "source") /\ Len(message.source) < MaxSourceLength

\* source.charAt(i), i counted from 0
charAt(source, i) == IF i + 1 \in 1..Len(source) THEN source[i + 1] ELSE ""

\* for (i = 0; i < message.column; i++) ...; arrow += '^'
Arrow(message) ==
    IF HasSource(message)
    THEN [i \in 1..(IF Has(message, "column") THEN message.column ELSE 0) |->
             IF charAt(message.source, i - 1) = TAB THEN TAB ELSE " "]
         \o <<"^">>
    ELSE <<>>

\* message.message.replace(/\.$/, '')
StripPeriod(text) ==
    IF Len(text) > 0 /\ text[Len(text)] = "."
    THEN SubSeq(text, 1, Len(text) - 1)
    ELSE text

\* the row pushed for a message
Row(message) ==
    [ messageType |-> IF IsError(message) THEN "red cross" ELSE "yellow warning",
      key         |-> IF Has(message, "ruleId") THEN message.ruleId ELSE "",
      isError     |-> IsError(message),
      msg         |-> StripPeriod(message.message),
      filePath    |-> message.filePath,
      line        |-> OrZero(message, "line"),
      column      |-> OrZero(message, "column"),
      source      |-> IF HasSource(message)
                      THEN <<message.source, Arrow(message)>>
                      ELSE <<>> ]

\* entries.reduce(..., []): the rows of the entries es
RECURSIVE Rows(_, _)
Rows(es, rule) ==
    IF es = <<>> THEN <<>>
    ELSE (IF FilteredOut(Head(es), rule) THEN <<>> ELSE <<Row(Head(es))>>)
         \o Rows(Tail(es), rule)

--------------------------------------------------------------------------
(* The summary *)

pluralize(word, count) == IF count = 1 THEN <<word>> ELSE <<word, "s">>

\* the function given to Object.keys(hash).sort
CountComparator(x, y) == IF x.count > y.count THEN -1 ELSE 1

printSummary(hash, title, method, eng) ==
    [ kind  |-> "summary",
      title |-> title,
      color |-> method,
      rows  |-> sort(hash,
                     [p \in (1..Len(hash)) \X (1..Len(hash)) |->
                         CountComparator(hash[p[1]], hash[p[2]])],
                     eng) ]

\* the pieces appended to output when total > 0
Report(n, e, w, color, eHash, wHash, eng) ==
    <<[ kind     |-> "problems",
        color    |-> color,
        total    |-> n,
        problems |-> pluralize(" problem", n),
        errors   |-> e,
        error    |-> pluralize(" error", e),
        warnings |-> w,
        warning  |-> pluralize(" warning", w) ]>>
    \o (IF e > 0 THEN <<printSummary(eHash, "Errors", "red", eng)>> ELSE <<>>)
    \o (IF w > 0 THEN <<printSummary(wHash, "Warnings", "yellow", eng)>> ELSE <<>>)
    \o <<[kind |-> "separator"]>>

--------------------------------------------------------------------------
(* The steps of module.exports *)

\* one iteration of results.forEach
ForEach ==
    /\ pc = "forEach"
    /\ ri <= Len(results)
    /\ entries' = entries \o FlattenResult(results[ri], absolutePathsToFile)
    /\ ri' = ri + 1
    /\ UNCHANGED <<results, absolutePathsToFile, groupByIssue, filterRule,
                   engine, pc, mi, seq, errors, warnings, summaryColor,
                   errorsHash, warningsHash, total, output, ret>>

\* entries.sort(...)
Sort ==
    /\ pc = "forEach"
    /\ ri > Len(results)
    /\ entries' = SortEntries(entries, groupByIssue, engine)
    /\ pc' = "reduce"
    /\ UNCHANGED <<results, absolutePathsToFile, groupByIssue, filterRule,
                   engine, ri, mi, seq, errors, warnings, summaryColor,
                   errorsHash, warningsHash, total, output, ret>>

\* one call of the callback of entries.reduce
Reduce ==
    /\ pc = "reduce"
    /\ mi <= Len(entries)
    /\ mi' = mi + 1
    /\ LET message == entries[mi]
       IN  IF FilteredOut(message, filterRule)
           THEN UNCHANGED <<seq, errors, warnings, summaryColor, errorsHash,
                            warningsHash>>
           ELSE /\ seq' = Append(seq, Row(message))
                /\ IF IsError(message)
                   THEN /\ summaryColor' = "red"
                        /\ errorsHash' = Increment(errorsHash, PropertyKey(message))
                        /\ errors' = errors + 1
                        /\ UNCHANGED <<warningsHash, warnings>>
                   ELSE /\ summaryColor' = "yellow"
                        /\ warningsHash' = Increment(warningsHash, PropertyKey(message))
                        /\ warnings' = warnings + 1
                        /\ UNCHANGED <<errorsHash, errors>>
    /\ UNCHANGED <<results, absolutePathsToFile, groupByIssue, filterRule,
                   engine, pc, ri, entries, total, output, ret>>

\* output += table(...) + '\n\n'; total = entries.length; the summary; return
Compose ==
    /\ pc = "reduce"
    /\ mi > Len(entries)
    /\ total' = Len(entries)
    /\ LET out == output \o <<[kind |-> "table", rows |-> seq]>>
                  \o (IF Len(entries) > 0
                      THEN Report(Len(entries), errors, warnings, summaryColor,
                                  errorsHash, warningsHash, engine)
                      ELSE <<>>)
       IN  /\ output' = out
           /\ ret' = IF Len(entries) > 0 THEN out ELSE <<>>
    /\ pc' = "done"
    /\ UNCHANGED <<results, absolutePathsToFile, groupByIssue, filterRule,
                   engine, ri, entries, mi, seq, errors, warnings, summaryColor,
                   errorsHash, warningsHash>>

Next == ForEach \/ Sort \/ Reduce \/ Compose

--------------------------------------------------------------------------
(* The inputs *)

SeqUpTo(S, n) == UNION {[1..k -> S] : k \in 0..n}

RECURSIVE Sum(_)
Sum(ns) == IF ns = <<>> THEN 0 ELSE Head(ns) + Sum(Tail(ns))

\* The results made of the diagnostics ds, in this order: result k has the
\* path paths[k] and the next counts[k] diagnostics, or no messages
\* property when counts[k] = -1.
RECURSIVE Split(_, _, _)
Split(ds, paths, counts) ==
    IF counts = <<>> THEN <<>>
    ELSE LET n == IF Head(counts) < 0 THEN 0 ELSE Head(counts)
         IN  <<IF Head(counts) < 0
               THEN [filePath |-> Head(paths)]
               ELSE [filePath |-> Head(paths), messages |-> SubSeq(ds, 1, n)]>>
             \o Split(SubSeq(ds, n + 1, Len(ds)), Tail(paths), Tail(counts))

Positive(counts) == [k \in 1..Len(counts) |-> IF counts[k] < 0 THEN 0 ELSE counts[k]]

Injective(paths) ==
    \A j, k \in 1..Len(paths) : paths[j] = paths[k] => j = k

\* Every results array of at most maxFiles results, each with a path of its
\* own among Paths and a number of diagnostics in Counts, of at most
\* maxDiags diagnostics of Diags in all.
Inputs(Diags, Paths, Counts, maxFiles, maxDiags) ==
    { Split(t[1], t[2], t[3]) :
        t \in { u \in SeqUpTo(Diags, maxDiags) \X SeqUpTo(Paths, maxFiles)
                      \X SeqUpTo(Counts, maxFiles) :
                  /\ Len(u[2]) = Len(u[3])
                  /\ Injective(u[2])
                  /\ Sum(Positive(u[3])) = Len(u[1]) } }

Text == <<"M", "i", "s", "s", "i", "n", "g", ".">>

\* diagnostics as ESLint reports them, with or without fatal and ruleId
CountedDiags ==
    { [severity |-> s, message |-> Text, line |-> 1, column |-> 1] @@ f @@ r :
        s \in {1, 2},
        f \in Optional("fatal", {TRUE}),
        r \in Optional("ruleId", {"no-undef", "semi"}) }

InitLocals ==
    /\ pc = "forEach"
    /\ ri = 1
    /\ entries = <<>>
    /\ mi = 1
    /\ seq = <<>>
    /\ errors = 0
    /\ warnings = 0
    /\ summaryColor = "yellow"
    /\ errorsHash = <<>>
    /\ warningsHash = <<>>
    /\ total = 0
    /\ output = <<[kind |-> "newline"]>>
    /\ ret = <<>>

\* flags, filter and runtime of a run whose paths stay relative
Configured(filters) ==
    /\ absolutePathsToFile = FALSE
    /\ groupByIssue \in BOOLEAN
    /\ filterRule \in filters
    /\ engine \in Engines

Init ==
    /\ results \in Inputs(CountedDiags, {"a.js", "b.js"}, -1..MaxDiags,
                           MaxFiles, MaxDiags)
    /\ Configured({"", "no-undef", "semi"})
    /\ InitLocals

Spec == Init /\ [][Next]_vars

--------------------------------------------------------------------------
(* Inputs that exercise the comparator: one or two diagnostics per file,  *)
(* with or without ruleId and column.                                     *)

SortFiles == 3
SortDiags == 3

OrderedDiags ==
    { [severity |-> s, message |-> Text, line |-> 1] @@ r @@ c :
        s \in {1, 2},
        r \in Optional("ruleId", {"no-undef", "semi"}),
        c \in Optional("column", {1}) }

InitSort ==
    /\ results \in Inputs(OrderedDiags, RelativePaths, 1..2, SortFiles, SortDiags)
    /\ Configured({""})
    /\ InitLocals

SpecSort == InitSort /\ [][Next]_vars

--------------------------------------------------------------------------
(* Inputs that exercise the pointer line: one file whose diagnostics have *)
(* a source line or none, and a column or none.                           *)

PointerDiags == 2

Long(n) == [k \in 1..n |-> "x"]

Sources ==
    { <<" ", " ", "c", "o", "n", "s", "t", " ", "x", " ", "=", " ", "1">>,
      <<TAB, "x", TAB, "y">>,
      Long(MaxSourceLength - 1),
      Long(MaxSourceLength) }

PointedDiags ==
    { [severity |-> 2, ruleId |-> "semi", message |-> Text, line |-> 1] @@ c @@ src :
        c \in Optional("column", {1, 3, 8}),
        src \in Optional("source", Sources) }

InitPointer ==
    /\ results \in Inputs(PointedDiags, {"a.js"}, 0..PointerDiags, 1, PointerDiags)
    /\ Configured({"", "semi"})
    /\ InitLocals

SpecPointer == InitPointer /\ [][Next]_vars

--------------------------------------------------------------------------
(* Inputs that exercise the flattening: diagnostics with or without a     *)
(* filePath property of their own, relative or absolute paths.            *)

FlattenFiles == 2
FlattenDiags == 2

PathedDiags ==
    { [severity |-> s, ruleId |-> "semi", message |-> Text, line |-> 1,
       column |-> 1] @@ f :
        s \in {1, 2},
        f \in Optional("filePath", {"c.js"}) }

InitFlatten ==
    /\ results \in Inputs(PathedDiags, {"a.js", "b.js"}, -1..FlattenDiags,
                           FlattenFiles, FlattenDiags)
    /\ absolutePathsToFile \in BOOLEAN
    /\ groupByIssue \in BOOLEAN
    /\ filterRule \in {"", "semi"}
    /\ engine \in Engines
    /\ InitLocals

SpecFlatten == InitFlatten /\ [][Next]_vars

--------------------------------------------------------------------------
(* Properties *)

RECURSIVE Concat(_)
Concat(ss) == IF ss = <<>> THEN <<>> ELSE Head(ss) \o Concat(Tail(ss))

\* the diagnostics of the results rs as the engine supplied them, in order
Supplied(rs) ==
    Concat([k \in 1..Len(rs) |->
               IF Has(rs[k], "messages") THEN rs[k].messages ELSE <<>>])

\* a diagnostic passes the filter step
Survives(d) ==
    filterRule = "" \/ (Has(d, "ruleId") /\ d.ruleId = filterRule)

\* error or warning, fatal winning
Class(d) ==
    IF (Has(d, "fatal") /\ d.fatal = TRUE) \/ d.severity = 2
    THEN "error" ELSE "warning"

Count(s, P(_)) == Cardinality({k \in 1..Len(s) : P(s[k])})

Done == pc = "done"

--------------------------------------------------------------------------
\* C3: the rows of the main table are as many as the diagnostics that pass
\* the filter step (all of them without a filter); the error counter plus the
\* warning counter is the number of rows, the error counter counting the error
\* rows and the warning counter the warning rows.
C3_CountInvariant ==
    /\ pc \in {"reduce", "done"} =>
          /\ Len(seq) = Count(SubSeq(entries, 1, mi - 1), Survives)
          /\ errors + warnings = Len(seq)
          /\ errors = Count(seq, LAMBDA row : row.messageType = "red cross")
          /\ warnings = Count(seq, LAMBDA row : row.messageType = "yellow warning")
    /\ Done =>
          /\ Len(seq) = Count(Supplied(results), Survives)
          /\ output[2] = [kind |-> "table", rows |-> seq]

\* a finished run whose filter removed one diagnostic and kept another
C3_Witness ==
    /\ Done
    /\ filterRule = "semi"
    /\ Len(entries) = 2
    /\ Len(seq) = 1
    /\ Len(results) = 2

--------------------------------------------------------------------------
\* C1: when no diagnostic survives (no result has a diagnostic, or the filter
\* rule removes every one of them) the formatter returns the empty string.
C1_EmptinessLaw ==
    Done /\ Count(Supplied(results), Survives) = 0 => ret = <<>>

--------------------------------------------------------------------------
\* C2: with a filter rule set, the problem total of the summary line is the
\* number of surviving diagnostics and is the sum of the error count and the
\* warning count printed beside it.
C2_FilterAccounting ==
    Done /\ ret # <<>> =>
        /\ ret[3].kind = "problems"
        /\ ret[3].total = Count(Supplied(results), Survives)
        /\ ret[3].total = ret[3].errors + ret[3].warnings

--------------------------------------------------------------------------
\* C6: in the main table every warning row precedes every error row, a
\* diagnostic being an error iff fatal is true or severity is 2.
C6_WarningsBeforeErrors ==
    Done =>
        \A j, k \in 1..Len(seq) :
            seq[j].messageType = "red cross" /\ seq[k].messageType = "yellow warning"
                => k < j

--------------------------------------------------------------------------
\* C7: every surviving diagnostic adds one to the error tally if it is an
\* error and to the warning tally otherwise, at the key that is its ruleId,
\* or the empty string when it has none; the counts of each tally sum to its
\* counter.
Tallied(hash, class, key) ==
    LET at == {k \in 1..Len(hash) : hash[k].key = key}
    IN  /\ Cardinality(at) <= 1
        /\ Sum([k \in 1..Len(hash) |-> IF k \in at THEN hash[k].count ELSE 0])
             = Count(Supplied(results),
                     LAMBDA d : /\ Survives(d)
                                /\ Class(d) = class
                                /\ key = (IF Has(d, "ruleId") THEN d.ruleId ELSE ""))

C7_TallyAccounting ==
    Done =>
        /\ Sum([k \in 1..Len(errorsHash) |-> errorsHash[k].count]) = errors
        /\ Sum([k \in 1..Len(warningsHash) |-> warningsHash[k].count]) = warnings
        /\ \A key \in {"", "no-undef", "semi"} :
              /\ Tallied(errorsHash, "error", key)
              /\ Tallied(warningsHash, "warning", key)

--------------------------------------------------------------------------
\* C9: the rows of a summary table are the keys of its tally in
\* non-increasing order of count, keys of equal count in the order in which
\* the tally holds them; the error summary is emitted iff there is an error
\* and the warning summary iff there is a warning.
Before(s, x, y) ==
    \E j, k \in 1..Len(s) : j < k /\ s[j] = x /\ s[k] = y

Summarises(rows, hash) ==
    /\ Len(rows) = Len(hash)
    /\ \A x \in {hash[k] : k \in 1..Len(hash)} : \E k \in 1..Len(rows) : rows[k] = x
    /\ \A j, k \in 1..Len(rows) :
          j < k => /\ rows[j].count >= rows[k].count
                   /\ rows[j].count = rows[k].count => Before(hash, rows[j], rows[k])

Emitted(title) == {k \in 1..Len(ret) : ret[k].kind = "summary" /\ ret[k].title = title}

C9_SummaryOrdering ==
    Done /\ ret # <<>> =>
        /\ Cardinality(Emitted("Errors")) = (IF errors > 0 THEN 1 ELSE 0)
        /\ Cardinality(Emitted("Warnings")) = (IF warnings > 0 THEN 1 ELSE 0)
        /\ \A k \in Emitted("Errors") : Summarises(ret[k].rows, errorsHash)
        /\ \A k \in Emitted("Warnings") : Summarises(ret[k].rows, warningsHash)

--------------------------------------------------------------------------
\* C4: two inputs that hold the same results in a different order give the
\* same rows in the same order, with and without grouping by rule, also
\* when a diagnostic has no ruleId, line or column.
Reordered(rs, p) == [k \in 1..Len(rs) |-> rs[p[k]]]

C4_InputOrderIndependence ==
    Done =>
        \A p \in Permutations(1..Len(results)) :
            Rows(SortEntries(Flatten(Reordered(results, p), absolutePathsToFile),
                             groupByIssue, engine),
                 filterRule) = seq

--------------------------------------------------------------------------
\* C5: the comparator is a transitive ordering by the tuple (severity; ruleId
\* when grouping by rule, an absent ruleId being the empty string, which is
\* before every other; filePath; line; column), and the sorted entries are in
\* non-decreasing order of that tuple.
RuleRank(d) == IF Has(d, "ruleId") THEN IndexOf(RuleIds, d.ruleId) ELSE 0

SortKey(d) ==
    << d.severity,
       IF groupByIssue THEN RuleRank(d) ELSE 0,
       IndexOf(FilePaths, d.filePath),
       IF Has(d, "line") THEN d.line ELSE 0,
       IF Has(d, "column") THEN d.column ELSE 0 >>

KeyLess(x, y) ==
    \E k \in 1..5 : x[k] < y[k] /\ \A j \in 1..(k - 1) : x[j] = y[j]

C5_SortOrder ==
    /\ \A a, b, c \in {entries[k] : k \in 1..Len(entries)} :
          /\ Comparator(a, b, groupByIssue) <= 0
          /\ Comparator(b, c, groupByIssue) <= 0
          => Comparator(a, c, groupByIssue) <= 0
    /\ pc \in {"reduce", "done"} =>
          \A j, k \in 1..Len(entries) :
              j < k => ~KeyLess(SortKey(entries[k]), SortKey(entries[j]))

--------------------------------------------------------------------------
\* C8: for a diagnostic with a source shorter than 1000 characters and a
\* column c >= 1 the pointer line is c - 1 whitespace characters, a tab where
\* the source has a tab at that index and a space elsewhere, followed by a
\* caret; without a source, or with one of 1000 characters or more, the row
\* has neither source line nor pointer line.  (No diagnostic of these inputs
\* is filtered out: row k is that of entry k.)
Pointer(source, c) ==
    [i \in 1..(c - 1) |-> IF i <= Len(source) /\ source[i] = TAB THEN TAB ELSE " "]
    \o <<"^">>

C8_PointerAlignment ==
    \A k \in 1..Len(seq) :
        LET d == entries[k]
        IN  IF Has(d, "source") /\ Len(d.source) < 1000
            THEN Has(d, "column") /\ d.column >= 1
                    => seq[k].source = <<d.source, Pointer(d.source, d.column)>>
            ELSE seq[k].source = <<>>

--------------------------------------------------------------------------
\* C10: the flattened sequence holds one entry per diagnostic of every
\* result, in input order, a result without messages adding none; the
\* filePath of an entry is that of its result (resolved when absolute paths
\* are enabled) even when the diagnostic has a filePath of its own, every
\* other property is the diagnostic's, and the results are left as supplied.
Tagged(d, path) == ("filePath" :> path) @@ d

Expected(rs) ==
    Concat([k \in 1..Len(rs) |->
        LET path == IF absolutePathsToFile THEN resolve(rs[k].filePath)
                    ELSE rs[k].filePath
            ms == IF Has(rs[k], "messages") THEN rs[k].messages ELSE <<>>
        IN  [j \in 1..Len(ms) |-> Tagged(ms[j], path)]])

C10_Flattening ==
    pc = "forEach" => entries = Expected(SubSeq(results, 1, ri - 1))

==========================================================================
